---------------------------- MODULE Spec2Model ----------------------------
(***************************************************************************)
(* A model of sales_report.py: the pipeline                                *)
(*   read_sales_excel -> summarize_by_product -> summarize_by_month ->     *)
(*   plot_top_products -> plot_monthly_sales -> create_pdf_report -> print *)
(* run by main.  Column names are sequences of characters, so that the     *)
(* substring tests of the column detection are computed, not assumed.      *)
(* Money is an exact integer number of cents; dates are integers yyyymmdd. *)
(* Floating-point rounding and the non-finite floats are outside the model.*)
(***************************************************************************)
EXTENDS Integers, Sequences, FiniteSets, TLC

\* ------------------------------------------------------------------ bounds
\* Largest number of data rows of an input sheet.
MaxRows == 2

\* ------------------------------------------------------------ generic helpers
Range(s) == {s[i] : i \in 1..Len(s)}

RECURSIVE SelectWhere(_, _)
\* The list comprehension  [x for x in s if keep(x)] : the elements of s at the
\* positions where keep is TRUE, in the order of s.
SelectWhere(s, keep) ==
    IF s = <<>> THEN <<>>
    ELSE (IF Head(keep) THEN <<Head(s)>> ELSE <<>>) \o SelectWhere(Tail(s), Tail(keep))

Reverse(s) == [i \in 1..Len(s) |-> s[Len(s) + 1 - i]]

Min2(a, b) == IF a <= b THEN a ELSE b

\* ------------------------------------------------------------- cell values
\* One scalar of a sheet or of a DataFrame: k is its kind, n its number
\* (cents, a count, or a date yyyymmdd), s its text.
Null    == [k |-> "null", n |-> 0, s |-> ""]
NaT     == [k |-> "nat",  n |-> 0, s |-> ""]
Num(n)  == [k |-> "num",  n |-> n, s |-> ""]
Text(s) == [k |-> "text", n |-> 0, s |-> s]
Date(d) == [k |-> "date", n |-> d, s |-> ""]

\* ------------------------------------------------------------ column names
\* str.lower on one character.
LowerTable ==
    [A |-> "a", B |-> "b", C |-> "c", D |-> "d", E |-> "e", F |-> "f", G |-> "g",
     H |-> "h", I |-> "i", J |-> "j", K |-> "k", L |-> "l", M |-> "m", N |-> "n",
     O |-> "o", P |-> "p", Q |-> "q", R |-> "r", S |-> "s", T |-> "t", U |-> "u",
     V |-> "v", W |-> "w", X |-> "x", Y |-> "y", Z |-> "z"]

lower(c) == [i \in 1..Len(c) |-> IF c[i] \in DOMAIN LowerTable THEN LowerTable[c[i]] ELSE c[i]]

RECURSIVE lstrip(_)
lstrip(c) == IF c # <<>> /\ Head(c) = " " THEN lstrip(Tail(c)) ELSE c

\* str.strip: leading and trailing blanks removed.
strip(c) == Reverse(lstrip(Reverse(lstrip(c))))

\* Python's  t in c  on strings: t is a contiguous part of c.
Contains(c, t) ==
    \E i \in 1..(Len(c) - Len(t) + 1) : \A k \in 1..Len(t) : c[i + k - 1] = t[k]

\* The literals of the column detection.
s_date        == <<"d","a","t","e">>
s_data        == <<"d","a","t","a">>
s_sales       == <<"s","a","l","e","s">>
s_valor       == <<"v","a","l","o","r">>
s_qty         == <<"q","t","y">>
s_quantity    == <<"q","u","a","n","t","i","t","y">>
s_quantidade  == <<"q","u","a","n","t","i","d","a","d","e">>
s_price       == <<"p","r","i","c","e">>
s_preco       == <<"p","r","e","c","o">>
s_valor_unit  == <<"v","a","l","o","r","_","u","n","i","t">>
s_amount      == <<"a","m","o","u","n","t">>
s_valor_total == <<"v","a","l","o","r","_","t","o","t","a","l">>
s_total       == <<"t","o","t","a","l">>
s_product     == <<"p","r","o","d","u","c","t">>
s_produto     == <<"p","r","o","d","u","t","o">>
s_item        == <<"i","t","e","m">>
s_month       == <<"m","o","n","t","h">>


\* ---------------------------------------------------------------- DataFrame
\* A DataFrame: its column names in order, and its rows, each a function from
\* column name to value.
Column(df, c) == [i \in 1..Len(df.rows) |-> df.rows[i][c]]

\* df[c] = vals : replaces column c, or appends it as the last column.
SetColumn(df, c, vals) ==
    [columns |-> IF c \in Range(df.columns) THEN df.columns ELSE Append(df.columns, c),
     rows    |-> [i \in 1..Len(df.rows) |->
                    [x \in Range(df.columns) \cup {c} |->
                        IF x = c THEN vals[i] ELSE df.rows[i][x]]]]

NoDf == [columns |-> <<>>, rows |-> <<>>]

\* ------------------------------------------------------------- conversions
\* Texts pandas.read_excel turns into a missing value by default (some of them).
NaStrings == {"", "NA", "N/A", "nan", "NaN", "null"}

\* One cell as pandas.read_excel delivers it.
ReadCell(c) == IF c.k = "text" /\ c.s \in NaStrings THEN Null ELSE c

\* Texts that parse as a calendar date, with the date.
DateTexts == [x \in {"2025-02-02"} |-> 20250202]

\* pandas.to_datetime on one value: whether it raises, and what it gives. A
\* missing value gives NaT without an error.
DatetimeRaises(c) == c.k = "text" /\ c.s \notin DOMAIN DateTexts

to_datetime(c) ==
    CASE c.k = "date" -> c
      [] c.k = "text" -> Date(DateTexts[c.s])
      [] c.k \in {"null", "nat"} -> NaT

\* Texts that parse as a number, with the number.
NumberTexts == [x \in {"2"} |-> 2]

NaN == [k |-> "nan", n |-> 0, s |-> ""]

\* pandas.to_numeric(errors='coerce') on one value: NaN for what does not parse.
to_numeric(c) ==
    CASE c.k = "num" -> c
      [] c.k = "text" -> IF c.s \in DOMAIN NumberTexts THEN Num(NumberTexts[c.s]) ELSE NaN
      [] c.k \in {"null", "nan"} -> NaN

\* fillna(0) left out: a value that did not parse stays NaN.
fillna0_Missing(c) == c

fillna0(c) == IF c.k = "nan" THEN Num(0) ELSE c

\* pd.to_numeric(column, errors='coerce').fillna(0)
NumericColumn(df, c) == [i \in 1..Len(df.rows) |-> fillna0(to_numeric(df.rows[i][c]))]

\* astype(str) on one value: a missing value becomes the text "nan".
astype_str(c) ==
    CASE c.k = "text" -> c
      [] c.k \in {"null", "nan"} -> Text("nan")

\* --------------------------------------------------------- read_sales_excel
\* pd.read_excel and the normalisation of the column names (strip, lower).
LoadSheet(file) ==
    LET cols == [j \in 1..Len(file.header) |-> lower(strip(file.header[j]))]
    IN  [columns |-> cols,
         rows    |-> [i \in 1..Len(file.rows) |->
                        [x \in Range(cols) |->
                            LET j == CHOOSE j \in 1..Len(cols) : cols[j] = x
                            IN  ReadCell(file.rows[i][j])]]]

date_cols(df) ==
    SelectWhere(df.columns,
        [j \in 1..Len(df.columns) |->
            Contains(df.columns[j], s_date) \/ Contains(df.columns[j], s_data)])

qty_cols(df) ==
    SelectWhere(df.columns,
        [j \in 1..Len(df.columns) |->
            \/ Contains(df.columns[j], s_qty)
            \/ Contains(df.columns[j], s_quantity)
            \/ Contains(df.columns[j], s_quantidade)])

price_cols(df) ==
    SelectWhere(df.columns,
        [j \in 1..Len(df.columns) |->
            \/ Contains(df.columns[j], s_price)
            \/ Contains(df.columns[j], s_preco)
            \/ Contains(df.columns[j], s_valor_unit)])

other_cols(df) ==
    SelectWhere(df.columns,
        [j \in 1..Len(df.columns) |->
            df.columns[j] \in {s_amount, s_valor_total, s_total}])

prod_cols(df) ==
    SelectWhere(df.columns,
        [j \in 1..Len(df.columns) |->
            \/ Contains(df.columns[j], s_product)
            \/ Contains(df.columns[j], s_produto)
            \/ Contains(df.columns[j], s_item)])

\* Lines 47-52: the date column, parsed.
WithDate(df) == SetColumn(df, s_date,
    [i \in 1..Len(df.rows) |-> to_datetime(df.rows[i][date_cols(df)[1]])])

DateRaises(df) == \E i \in 1..Len(df.rows) : DatetimeRaises(df.rows[i][date_cols(df)[1]])

\* SalesPath with quantity x price tried before the sales column.
SalesPath_QtyFirst(df) ==
    IF qty_cols(df) # <<>> /\ price_cols(df) # <<>> THEN "qty_price"
    ELSE IF s_sales \in Range(df.columns) \/ s_valor \in Range(df.columns) THEN "direct"
    ELSE IF other_cols(df) # <<>> THEN "other"
    ELSE "none"

\* Lines 54-72: which way the sales value is found: "direct", "qty_price",
\* "other" or "none".
SalesPath(df) ==
    IF s_sales \in Range(df.columns) \/ s_valor \in Range(df.columns) THEN "direct"
    ELSE IF qty_cols(df) # <<>> /\ price_cols(df) # <<>> THEN "qty_price"
    ELSE IF other_cols(df) # <<>> THEN "other"
    ELSE "none"

sales_col(df) == IF s_sales \in Range(df.columns) THEN s_sales ELSE s_valor

Times(a, b) == [i \in 1..Len(a) |-> Num(a[i].n * b[i].n)]

\* Lines 55-70: the DataFrame with its sales column (and, on the quantity x
\* price path, its quantity and price columns).
WithSales(df) ==
    CASE SalesPath(df) = "direct" ->
            SetColumn(df, s_sales, NumericColumn(df, sales_col(df)))
      [] SalesPath(df) = "qty_price" ->
            LET d1 == SetColumn(df, s_quantity, NumericColumn(df, qty_cols(df)[1]))
                d2 == SetColumn(d1, s_price, NumericColumn(d1, price_cols(df)[1]))
            IN  SetColumn(d2, s_sales, Times(Column(d2, s_quantity), Column(d2, s_price)))
      [] SalesPath(df) = "other" ->
            SetColumn(df, s_sales, NumericColumn(df, other_cols(df)[1]))

\* Lines 74-79: the product column, as text.
WithProduct(df) == SetColumn(df, s_product,
    [i \in 1..Len(df.rows) |-> astype_str(df.rows[i][prod_cols(df)[1]])])

\* read_sales_excel: the error it raises ("" for none) and the DataFrame it
\* returns.
read_sales_excel(file) ==
    LET df0 == LoadSheet(file) IN
    IF date_cols(df0) = <<>> THEN [err |-> "no date column", df |-> NoDf]
    ELSE IF DateRaises(df0) THEN [err |-> "unparsable date", df |-> NoDf]
    ELSE LET df1 == WithDate(df0) IN
    IF SalesPath(df1) = "none" THEN [err |-> "no sales columns", df |-> NoDf]
    ELSE LET df2 == WithSales(df1) IN
    IF prod_cols(df2) = <<>> THEN [err |-> "no product column", df |-> NoDf]
    ELSE [err |-> "", df |-> WithProduct(df2)]

\* --------------------------------------------------------------- aggregation
RECURSIVE SumSales(_)
\* Series.sum() of the sales of a sequence of rows (or of summary rows).
SumSales(rows) == IF rows = <<>> THEN 0 ELSE Head(rows).sales + SumSales(Tail(rows))

\* The sales of the DataFrame's rows, as plain numbers with their group keys.
SalesRows(df) ==
    [i \in 1..Len(df.rows) |->
        [product |-> df.rows[i][s_product].s,
         date    |-> df.rows[i][s_date],
         sales   |-> df.rows[i][s_sales].n]]

\* The product texts of the model in ascending order (Python's str order).
TextOrder == <<"Bermuda", "Camiseta", "nan">>

SalesOfProduct(df, p) ==
    SumSales(SelectWhere(SalesRows(df), [i \in 1..Len(df.rows) |-> SalesRows(df)[i].product = p]))

\* Line 88: df.groupby('product', dropna=False)['sales'].sum().reset_index():
\* one row per product, in ascending order of the product text.
GroupByProduct(df) ==
    LET present == SelectWhere(TextOrder,
                     [j \in 1..Len(TextOrder) |->
                        \E i \in 1..Len(df.rows) : df.rows[i][s_product].s = TextOrder[j]])
    IN  [j \in 1..Len(present) |->
            [product |-> present[j], sales |-> SalesOfProduct(df, present[j])]]

Arrangements(s) ==
    {[i \in 1..Len(s) |-> s[f[i]]] :
        f \in {g \in [1..Len(s) -> 1..Len(s)] : \A a, b \in 1..Len(s) : a # b => g[a] # g[b]}}

\* sort_values('sales') without ascending=False.
SortDescending_Ascending(grp) ==
    {s \in Arrangements(grp) : \A i \in 1..(Len(s) - 1) : s[i].sales <= s[i + 1].sales}

\* Line 89: sort_values('sales', ascending=False) with the default, unstable
\* sort: every descending arrangement of the rows is a possible outcome.
SortDescending(grp) ==
    {s \in Arrangements(grp) : \A i \in 1..(Len(s) - 1) : s[i].sales >= s[i + 1].sales}

RECURSIVE FirstSeen(_)
\* The distinct products of a sequence of rows, in the order of their first rows.
FirstSeen(rows) ==
    IF rows = <<>> THEN <<>>
    ELSE LET rest == FirstSeen(SubSeq(rows, 1, Len(rows) - 1))
             p    == rows[Len(rows)].product
         IN  IF p \in Range(rest) THEN rest ELSE Append(rest, p)

RECURSIVE StableDescending(_)
\* A stable sort by sales, largest first.
StableDescending(grp) ==
    IF grp = <<>> THEN <<>>
    ELSE LET m == CHOOSE a \in 1..Len(grp) :
                    /\ \A b \in 1..Len(grp) : grp[b].sales <= grp[a].sales
                    /\ \A b \in 1..(a - 1) : grp[b].sales < grp[a].sales
         IN  <<grp[m]>> \o StableDescending(SubSeq(grp, 1, m - 1) \o SubSeq(grp, m + 1, Len(grp)))

\* summarize_by_product with groupby(sort=False) and a stable sort: products
\* with equal totals in the order of their first rows.
summarize_by_product_FirstSeen(df) ==
    LET keys == FirstSeen(SalesRows(df))
    IN  {StableDescending([j \in 1..Len(keys) |->
            [product |-> keys[j], sales |-> SalesOfProduct(df, keys[j])]])}

\* summarize_by_product: the set of tables it can return.
summarize_by_product(df) == SortDescending(GroupByProduct(df))

\* The date kept as it is, not moved to the first day of its month.
MonthStart_SameDay(c) == IF c.k = "date" THEN c ELSE NaT

\* Line 97: to_period('M').to_timestamp(): the first day of the date's month.
MonthStart(c) == IF c.k = "date" THEN Date((c.n \div 100) * 100 + 1) ELSE NaT

WithMonth(df) == SetColumn(df, s_month,
    [i \in 1..Len(df.rows) |-> MonthStart(to_datetime(df.rows[i][s_date]))])

RECURSIVE SortAscending(_)
\* A set of numbers as the ascending sequence of its elements.
SortAscending(S) ==
    IF S = {} THEN <<>>
    ELSE LET m == CHOOSE x \in S : \A y \in S : x <= y
         IN  <<m>> \o SortAscending(S \ {m})

SalesOfMonth(df, m) ==
    SumSales(SelectWhere(SalesRows(df),
        [i \in 1..Len(df.rows) |-> df.rows[i][s_month] = Date(m)]))

\* Line 98: df.groupby('month')['sales'].sum().reset_index().sort_values('month'),
\* on the DataFrame that has its month column: groupby drops the rows whose
\* month is NaT.
GroupByMonth(df) ==
    LET months == SortAscending({df.rows[i][s_month].n :
                        i \in {j \in 1..Len(df.rows) : df.rows[j][s_month].k = "date"}})
    IN  [j \in 1..Len(months) |-> [month |-> months[j], sales |-> SalesOfMonth(df, months[j])]]

\* summarize_by_month: the table it returns, and the caller's DataFrame as it
\* leaves it.
summarize_by_month(df) == [grp |-> GroupByMonth(WithMonth(df)), df |-> WithMonth(df)]

\* -------------------------------------------------------------------- charts
head(s, n) == SubSeq(s, 1, Min2(n, Len(s)))

\* top_n of the call in main.
TopN == 10

\* plot_top_products: the bars drawn, bottom-up, and the number in the title.
plot_top_products(df_products, top_n) ==
    LET top == Reverse(head(df_products, top_n))
    IN  [bars |-> top, title_n |-> Min2(top_n, Len(top))]

\* plot_monthly_sales: the points drawn.
plot_monthly_sales(df_monthly) == [points |-> df_monthly]

\* ---------------------------------------------------------------------- PDF
\* Rows of the product table of the document.
TableRows == 20

\* create_pdf_report: the document built.
create_pdf_report(df_products, df_monthly, charts) ==
    [total_sales    |-> SumSales(df_products),
     total_products |-> Len(df_products),
     img_top        |-> charts.top_products,
     top20          |-> head(df_products, TableRows),
     img_month      |-> charts.monthly,
     months         |-> [i \in 1..Len(df_monthly) |->
                            [label |-> df_monthly[i].month \div 100,
                             sales |-> df_monthly[i].sales]]]

\* -------------------------------------------------------------- input sheets
\* Raw column headers, as typed in a sheet.
h_Date       == <<" ","D","a","t","e"," ">>
h_Data       == <<"D","a","t","a">>
h_Produto    == <<"P","r","o","d","u","t","o">>
h_item       == <<"i","t","e","m">>
h_Sales      == <<"S","a","l","e","s">>
h_valor      == <<"v","a","l","o","r">>
h_qty        == <<"q","t","y">>
h_price      == <<"P","R","I","C","E">>
h_valor_unit == <<"v","a","l","o","r","_","u","n","i","t">>
h_total      == <<"T","o","t","a","l"," ">>
h_amount     == <<"a","m","o","u","n","t">>

Vocabulary ==
    <<h_Date, h_Data, h_Produto, h_item, h_Sales, h_valor, h_qty, h_price,
      h_valor_unit, h_total, h_amount>>

\* The cell under each header in the one-row sheets that vary the headers: all
\* amounts differ, and differ from every quantity x price.
CellUnder ==
    <<Date(20250105), Date(20250320), Text("Camiseta"), Text("Bermuda"), Num(7),
      Num(11), Num(2), Num(3), Num(5), Num(13), Num(17)>>

\* Sheets with one row and any headers of the vocabulary, in its order or in
\* the reverse order.
HeaderSheets ==
    {LET keep == [j \in 1..Len(Vocabulary) |-> Vocabulary[j] \in S]
         hd   == SelectWhere(Vocabulary, keep)
         row  == SelectWhere(CellUnder, keep)
     IN  [header |-> IF rev THEN Reverse(hd) ELSE hd,
          rows   |-> << IF rev THEN Reverse(row) ELSE row >>]
     : S \in SUBSET Range(Vocabulary), rev \in BOOLEAN}

\* Sheets with given headers, up to MaxRows rows, and each cell drawn from the
\* values listed for its column.
RowsOver(dom) ==
    {r \in [1..Len(dom) -> UNION Range(dom)] : \A j \in 1..Len(dom) : r[j] \in dom[j]}

SheetsOver(header, dom) ==
    {[header |-> header, rows |-> rows] :
        rows \in UNION {[1..n -> RowsOver(dom)] : n \in 1..MaxRows}}

\* date, product, sales: dates in one month, in two months, missing, unparsable.
DateSheets ==
    SheetsOver(<<s_date, s_product, s_sales>>,
        <<{Date(20250105), Date(20250120), Text("2025-02-02"), Null, Text("abc")},
          {Text("Camiseta"), Text("Bermuda")},
          {Num(100), Num(200)}>>)

\* Data, Produto, valor: products present, missing, and typed as "NA"; amounts
\* that are numbers, numerals, or text.
ProductSheets ==
    SheetsOver(<<h_Data, h_Produto, h_valor>>,
        <<{Date(20250105)},
          {Text("Bermuda"), Null, Text("NA")},
          {Num(100), Text("2"), Text("abc")}>>)

\* date, product, quantity, price (the columns of create_sample_excel.py):
\* quantities and prices that are numbers, negative, text, or missing.
QuantitySheets ==
    SheetsOver(<<s_date, s_product, s_quantity, s_price>>,
        <<{Date(20250105), Date(20250202)},
          {Text("Camiseta")},
          {Num(3), Num(2), Num(-1), Text("abc")},
          {Num(4990), Null}>>)

Sheets == HeaderSheets \cup DateSheets \cup ProductSheets \cup QuantitySheets

\* The two rows of the example: 3 and 2 Camisetas at 49.90.
SampleSheet ==
    [header |-> <<s_date, s_product, s_quantity, s_price>>,
     rows   |-> << <<Date(20250105), Text("Camiseta"), Num(3), Num(4990)>>,
                   <<Date(20250202), Text("Camiseta"), Num(2), Num(4990)>> >>]

\* ------------------------------------------------------------------- main
VARIABLES
    argc,         \* len(argv)
    file,         \* the sheet at excel_path
    pc,           \* where main is
    df,           \* main's df
    df_products,  \* main's df_products
    df_monthly,   \* main's df_monthly
    charts,       \* the chart buffers made so far
    pdf,          \* the document at pdf_path: <<>> while there is none
    stdout,       \* what was printed
    raised        \* the exception that ended the run, "" for none

vars == <<argc, file, pc, df, df_products, df_monthly, charts, pdf, stdout, raised>>

NoChart == [bars |-> <<>>, title_n |-> 0, points |-> <<>>]

Init ==
    /\ \/ argc \in {1, 2} /\ file = SampleSheet
       \/ argc = 3 /\ file \in Sheets
    /\ pc = "main"
    /\ df = NoDf
    /\ df_products = <<>>
    /\ df_monthly = <<>>
    /\ charts = [top_products |-> NoChart, monthly |-> NoChart]
    /\ pdf = <<>>
    /\ stdout = <<>>
    /\ raised = ""

\* Lines 226-228: too few arguments.
Usage ==
    /\ pc = "main"
    /\ argc < 3
    /\ stdout' = Append(stdout, "usage")
    /\ pc' = "exit"
    /\ raised' = "SystemExit(1)"
    /\ UNCHANGED <<argc, file, df, df_products, df_monthly, charts, pdf>>

\* Line 233, read_sales_excel returns.
Read ==
    /\ pc = "main"
    /\ argc >= 3
    /\ read_sales_excel(file).err = ""
    /\ df' = read_sales_excel(file).df
    /\ pc' = "read"
    /\ UNCHANGED <<argc, file, df_products, df_monthly, charts, pdf, stdout, raised>>

\* The exception of read_sales_excel caught, and main going on with what it has.
ReadRaises_GoesOn ==
    /\ pc = "main"
    /\ argc >= 3
    /\ read_sales_excel(file).err # ""
    /\ raised' = read_sales_excel(file).err
    /\ pc' = "chart_month"
    /\ UNCHANGED <<argc, file, df, df_products, df_monthly, charts, pdf, stdout>>

\* Line 233, read_sales_excel raises: main ends there.
ReadRaises ==
    /\ pc = "main"
    /\ argc >= 3
    /\ read_sales_excel(file).err # ""
    /\ raised' = read_sales_excel(file).err
    /\ pc' = "exit"
    /\ UNCHANGED <<argc, file, df, df_products, df_monthly, charts, pdf, stdout>>

\* Line 236.
SummarizeByProduct ==
    /\ pc = "read"
    /\ df_products' \in summarize_by_product(df)
    /\ pc' = "products"
    /\ UNCHANGED <<argc, file, df, df_monthly, charts, pdf, stdout, raised>>

\* Line 237.
SummarizeByMonth ==
    /\ pc = "products"
    /\ df_monthly' = summarize_by_month(df).grp
    /\ df' = summarize_by_month(df).df
    /\ pc' = "monthly"
    /\ UNCHANGED <<argc, file, df_products, charts, pdf, stdout, raised>>

\* Line 240.
PlotTopProducts ==
    /\ pc = "monthly"
    /\ charts' = [charts EXCEPT !.top_products =
                    plot_top_products(df_products, TopN) @@ NoChart]
    /\ pc' = "chart_top"
    /\ UNCHANGED <<argc, file, df, df_products, df_monthly, pdf, stdout, raised>>

\* Line 241.
PlotMonthlySales ==
    /\ pc = "chart_top"
    /\ charts' = [charts EXCEPT !.monthly = plot_monthly_sales(df_monthly) @@ NoChart]
    /\ pc' = "chart_month"
    /\ UNCHANGED <<argc, file, df, df_products, df_monthly, pdf, stdout, raised>>

\* Line 250, the document is written.
CreatePdf ==
    /\ pc = "chart_month"
    /\ pdf' = <<create_pdf_report(df_products, df_monthly, charts)>>
    /\ pc' = "pdf"
    /\ UNCHANGED <<argc, file, df, df_products, df_monthly, charts, stdout, raised>>

\* Line 250, pdf_path cannot be written: doc.build raises.
CreatePdfRaises ==
    /\ pc = "chart_month"
    /\ raised' = "cannot write pdf"
    /\ pc' = "exit"
    /\ UNCHANGED <<argc, file, df, df_products, df_monthly, charts, pdf, stdout>>

\* Line 252.
PrintDone ==
    /\ pc = "pdf"
    /\ stdout' = Append(stdout, "Relatorio gerado")
    /\ pc' = "exit"
    /\ UNCHANGED <<argc, file, df, df_products, df_monthly, charts, pdf, raised>>

Next ==
    \/ Usage
    \/ Read
    \/ ReadRaises
    \/ SummarizeByProduct
    \/ SummarizeByMonth
    \/ PlotTopProducts
    \/ PlotMonthlySales
    \/ CreatePdf
    \/ CreatePdfRaises
    \/ PrintDone

Spec == Init /\ [][Next]_vars

\* ===================================================================== claims
\* What the claims speak of.
Started   == argc >= 3 /\ pc # "main"
HasDf     == Started /\ df # NoDf
JustRead  == Started /\ pc = "read"
Succeeded == "Relatorio gerado" \in Range(stdout)
AfterProducts == HasDf /\ pc \notin {"read"}
AfterMonthly  == HasDf /\ pc \notin {"read", "products"}

\* The sheet as read_excel hands it over: the name of column j, trimmed and in
\* lower case, and the cell of row i in column j.
Name(j) == lower(strip(file.header[j]))
Cell(i, j) == ReadCell(file.rows[i][j])
RowIds == 1..Len(file.rows)
ColIds == 1..Len(file.header)

\* A cell that does not parse as a number, and the number a cell counts for.
Unparsable(c) == c.k # "num" /\ ~(c.k = "text" /\ c.s \in DOMAIN NumberTexts)
Amount(c) == IF Unparsable(c) THEN 0 ELSE IF c.k = "num" THEN c.n ELSE NumberTexts[c.s]

\* ------------------------------------------------------------------------ C1
\* Columns by role, as the claim words them.
DirectIds == {j \in ColIds : Name(j) \in {s_sales, s_valor}}
QtyIds    == {j \in ColIds : \E w \in {s_qty, s_quantity, s_quantidade} : Contains(Name(j), w)}
PriceIds  == {j \in ColIds : \E w \in {s_price, s_preco, s_valor_unit} : Contains(Name(j), w)}
OtherIds  == {j \in ColIds : Name(j) \in {s_amount, s_valor_total, s_total}}

\* The sales values row i may get under the priority of the claim.
AllowedSales(i) ==
    IF DirectIds # {} THEN {Amount(Cell(i, j)) : j \in DirectIds}
    ELSE IF QtyIds # {} /\ PriceIds # {}
         THEN {Amount(Cell(i, q)) * Amount(Cell(i, p)) : q \in QtyIds, p \in PriceIds}
    ELSE {Amount(Cell(i, j)) : j \in OtherIds}

NoSalesPath == DirectIds = {} /\ (QtyIds = {} \/ PriceIds = {}) /\ OtherIds = {}

\* C1: the sales value of every row read comes from a column named exactly
\* sales or valor if there is one; otherwise, if there are a quantity-like and
\* a price-like column, it is a quantity times a price; otherwise it comes from
\* a column named amount, valor_total or total; and the reading ends with the
\* "no sales columns" error exactly when none of the three applies (and the
\* date column was found and parsed).
C1_SalesPathPriority ==
    /\ JustRead => \A i \in RowIds : df.rows[i][s_sales] \in {Num(v) : v \in AllowedSales(i)}
    /\ JustRead => ~NoSalesPath
    /\ raised = "no sales columns" => NoSalesPath
    /\ (Started /\ raised \in {"no product column", "cannot write pdf"}) => ~NoSalesPath

\* A sheet with sales, a quantity and a price column was read, and its sales
\* value is the one of the sales column (7), not quantity x price (2 x 3).
C1_Witness ==
    /\ JustRead
    /\ DirectIds # {} /\ QtyIds # {} /\ PriceIds # {}
    /\ h_Sales \in Range(file.header) /\ h_qty \in Range(file.header)
    /\ h_price \in Range(file.header)
    /\ df.rows[1][s_sales] = Num(7)

\* ------------------------------------------------------------------------ C2
\* C2: once both summaries are made, the sales of the product summary add up
\* to the same total as the sales of the month summary.
C2_TotalsConserved == AfterMonthly => SumSales(df_products) = SumSales(df_monthly)

\* ------------------------------------------------------------------------ C3
DateIds    == {j \in ColIds : Contains(Name(j), s_date) \/ Contains(Name(j), s_data)}
ProductIds == {j \in ColIds : \E w \in {s_product, s_produto, s_item} : Contains(Name(j), w)}
First(S)   == CHOOSE j \in S : \A x \in S : j <= x

BadDates == DateIds # {} /\ \E i \in RowIds :
                LET c == Cell(i, First(DateIds)) IN c.k = "text" /\ c.s \notin DOMAIN DateTexts
BadSheet == DateIds = {} \/ BadDates \/ NoSalesPath \/ ProductIds = {}

ProductKeys == {df_products[a].product : a \in 1..Len(df_products)}
MonthKeys   == {df_monthly[a].month : a \in 1..Len(df_monthly)}

\* C3: a sheet whose columns resolve is read whatever its numeric cells hold;
\* on the quantity x price path a quantity or a price that does not parse
\* counts as 0 on its own (the other one keeps its value) and the row's sales
\* is 0; on a direct path a value that does not parse gives sales 0; no row is
\* dropped: the row's product is a group of the product summary and, when the
\* row has a date, its month is a group of the month summary.
C3_UnparsableCountsZero ==
    /\ (Started /\ ~HasDf) => BadSheet
    /\ HasDf => Len(df.rows) = Len(file.rows)
    /\ (JustRead /\ DirectIds = {} /\ QtyIds # {} /\ PriceIds # {}) =>
          \A i \in RowIds :
             LET q == Cell(i, First(QtyIds))
                 p == Cell(i, First(PriceIds))
             IN  /\ Unparsable(q) => df.rows[i][s_quantity] = Num(0)
                 /\ Unparsable(p) => df.rows[i][s_price] = Num(0)
                 /\ ~Unparsable(q) => df.rows[i][s_quantity] = Num(Amount(q))
                 /\ ~Unparsable(p) => df.rows[i][s_price] = Num(Amount(p))
                 /\ (Unparsable(q) \/ Unparsable(p)) => df.rows[i][s_sales] = Num(0)
    /\ (JustRead /\ DirectIds # {}) =>
          \A i \in RowIds :
             (\A j \in DirectIds : Unparsable(Cell(i, j))) => df.rows[i][s_sales] = Num(0)
    /\ AfterProducts => \A i \in RowIds : df.rows[i][s_product].s \in ProductKeys
    /\ AfterMonthly => \A i \in RowIds :
          df.rows[i][s_date].k = "date" => (df.rows[i][s_date].n \div 100) * 100 + 1 \in MonthKeys

\* Both summaries are made of a quantity x price sheet in which one row has a
\* text quantity and a good price, and another row sells something.
C3_Witness ==
    /\ AfterMonthly
    /\ DirectIds = {} /\ QtyIds # {} /\ PriceIds # {}
    /\ \E i, j \in RowIds :
          /\ Unparsable(Cell(i, First(QtyIds))) /\ ~Unparsable(Cell(i, First(PriceIds)))
          /\ df.rows[i][s_sales] = Num(0)
          /\ df.rows[i][s_price].n > 0
          /\ df.rows[j][s_sales].n > 0

\* ------------------------------------------------------------------------ C4
\* C4: a sheet with no date column, no product column, no way to the sales
\* value or an unparsable date is never read, never gets a document nor the
\* success message; a run that raised has ended, with no document and no
\* message; the message is printed only with the document there; a document,
\* once there, is built from both charts, which are drawn from both summaries
\* of the table read.
C4_NoOutputOnError ==
    /\ (pdf # <<>> \/ Succeeded \/ JustRead) => ~BadSheet
    /\ raised # "" => pc = "exit" /\ pdf = <<>> /\ ~Succeeded
    /\ Succeeded => pdf # <<>>
    /\ pdf # <<>> =>
          /\ HasDf
          /\ pdf[1] = create_pdf_report(df_products, df_monthly, charts)
          /\ pdf[1].img_top.title_n = Min2(TopN, Len(df_products))
          /\ pdf[1].img_month.points = df_monthly

\* A run over a sheet without a date column has ended with the error and no
\* document.
C4_Witness ==
    /\ DateIds = {} /\ ProductIds # {} /\ ~NoSalesPath
    /\ pc = "exit" /\ raised = "no date column" /\ pdf = <<>>

\* ------------------------------------------------------------------------ C5
\* C5: the product summary has exactly the products of the table as keys, each
\* once, with sales never increasing down the table; the month summary has
\* exactly the months of the dated rows as keys, each once, in increasing
\* order.
C5_SummariesSorted ==
    /\ AfterProducts =>
          /\ ProductKeys = {df.rows[i][s_product].s : i \in RowIds}
          /\ \A a, b \in 1..Len(df_products) :
                /\ a < b => df_products[a].sales >= df_products[b].sales
                /\ a # b => df_products[a].product # df_products[b].product
    /\ AfterMonthly =>
          /\ MonthKeys = {(df.rows[i][s_date].n \div 100) * 100 + 1 :
                            i \in {x \in RowIds : df.rows[x][s_date].k = "date"}}
          /\ \A a, b \in 1..Len(df_monthly) :
                a < b => df_monthly[a].month < df_monthly[b].month

\* Two products with different totals and two months are summarised.
C5_Witness ==
    /\ AfterMonthly
    /\ Len(df_products) = 2 /\ df_products[1].sales > df_products[2].sales
    /\ Len(df_monthly) = 2

\* ------------------------------------------------------------------------ C6
RECURSIVE SumOver(_, _)
\* The sum of the sales of the rows of df with their index in S.
SumOver(S, d) ==
    IF S = {} THEN 0
    ELSE LET i == CHOOSE x \in S : TRUE
         IN  d.rows[i][s_sales].n + SumOver(S \ {i}, d)

\* C6: each row of the product summary holds the sum of the sales of the rows
\* with that product; each row of the month summary is keyed by the first day
\* of a month and holds the sum of the sales of the rows dated in that month;
\* the two rows of the example give Camiseta 249.50, and 149.70 for January
\* and 99.80 for February 2025.
C6_GroupSums ==
    /\ AfterProducts =>
          \A a \in 1..Len(df_products) :
             df_products[a].sales =
                SumOver({i \in RowIds : df.rows[i][s_product].s = df_products[a].product}, df)
    /\ AfterMonthly =>
          \A a \in 1..Len(df_monthly) :
             /\ df_monthly[a].month % 100 = 1
             /\ df_monthly[a].sales =
                  SumOver({i \in RowIds :
                             /\ df.rows[i][s_date].k = "date"
                             /\ df.rows[i][s_date].n \div 100 = df_monthly[a].month \div 100}, df)
    /\ (AfterMonthly /\ file = SampleSheet) =>
          /\ df_products = <<[product |-> "Camiseta", sales |-> 24950]>>
          /\ df_monthly = <<[month |-> 20250101, sales |-> 14970],
                            [month |-> 20250201, sales |-> 9980]>>

\* The example sheet is summarised.
C6_Witness == AfterMonthly /\ file = SampleSheet /\ Len(df_monthly) = 2

\* ------------------------------------------------------------------------ C7
\* C7 as claimed: every row read has a sales value that is a number and not
\* negative.
C7_SalesNonNegative ==
    HasDf => \A i \in RowIds : df.rows[i][s_sales].k = "num" /\ df.rows[i][s_sales].n >= 0

\* C7 as amended: every row read has a sales value that is a number (0 where
\* the input did not parse); it is negative only in a row where the sheet
\* holds a negative number.
C7_SalesNumeric ==
    HasDf => \A i \in RowIds :
        /\ df.rows[i][s_sales].k = "num"
        /\ df.rows[i][s_sales].n < 0 =>
              \E j \in ColIds : Cell(i, j).k = "num" /\ Cell(i, j).n < 0

\* A row with a negative quantity was read, and its sales is negative.
C7_Witness ==
    JustRead /\ \E i \in RowIds :
        /\ df.rows[i][s_sales].n < 0
        /\ \E j \in QtyIds : Cell(i, j) = Num(-1)

\* ------------------------------------------------------------------------ C8
\* C8: every row of the table read has a calendar date (a sheet with a date
\* cell that gives none is refused).
C8_EveryRowHasDate == HasDf => \A i \in RowIds : df.rows[i][s_date].k = "date"

\* ------------------------------------------------------------------------ C9
FirstRowOf(p) == First({i \in RowIds : df.rows[i][s_product].s = p})

\* C9 as claimed: products with equal totals stand in the order of their first
\* rows, and a row without a product shares its group with no row that has a
\* product text.
C9_TiesInFirstSeenOrder ==
    AfterProducts =>
        /\ \A a, b \in 1..Len(df_products) :
              (a < b /\ df_products[a].sales = df_products[b].sales) =>
                 FirstRowOf(df_products[a].product) < FirstRowOf(df_products[b].product)
        /\ \A i, j \in RowIds :
              (file.rows[i][First(ProductIds)].k = "null"
                 /\ file.rows[j][First(ProductIds)].k = "text") =>
              df.rows[i][s_product] # df.rows[j][s_product]

\* The table with its rows in the order f.
Reordered(d, f) == [d EXCEPT !.rows = [i \in 1..Len(d.rows) |-> d.rows[f[i]]]]

\* C9 as amended: the order of products with equal totals does not follow the
\* order of the rows: the summary made is one that summarize_by_product can
\* make of the same rows in any other order; and the rows whose product cell
\* is empty, or holds a text read_excel takes for a missing value, are the rows
\* of the group "nan".
C9_TiesInAnyOrder ==
    pc = "products" =>
        /\ \A f \in Arrangements([i \in RowIds |-> i]) :
              df_products \in summarize_by_product(Reordered(df, f))
        /\ \A i \in RowIds :
              LET c == file.rows[i][First(ProductIds)]
              IN  (c.k = "null" \/ (c.k = "text" /\ c.s \in NaStrings))
                     <=> df.rows[i][s_product].s = "nan"

\* Two products with equal totals are summarised with the later one first,
\* and a row without a product is in the table.
C9_Witness ==
    /\ pc = "products"
    /\ Len(df_products) = 2
    /\ df_products[1].sales = df_products[2].sales
    /\ FirstRowOf(df_products[1].product) > FirstRowOf(df_products[2].product)
    /\ \E i \in RowIds : file.rows[i][First(ProductIds)].k = "null"

\* ----------------------------------------------------------------------- C10
\* C10: no step after the reading changes the table read, and no step after a
\* summary is made changes that summary.
C10_StagesLeaveInputs ==
    [][/\ pc \notin {"main"} => df' = df
       /\ pc \notin {"main", "read"} => df_products' = df_products
       /\ pc \notin {"main", "read", "products"} => df_monthly' = df_monthly]_vars

=============================================================================
